---- MODULE Spec2Model ----
(***************************************************************************)
(* Model of VideoStitcher/rhombus_utils/velocity.py: get_velocity,         *)
(* normalize_velocity and normalize_position.                              *)
(*                                                                         *)
(* Numbers are exact rationals <<n, d>> in lowest terms with d > 0.        *)
(* A vector (np.ndarray of one dimension) is a sequence of numbers; the    *)
(* Python index a[0] is a[1] here.                                        *)
(***************************************************************************)
EXTENDS Integers, Sequences, FiniteSets

VARIABLES call, outcome, heap, frames

vars == <<call, outcome, heap, frames>>

(***************************************************************************)
(* Bounds of the input sets.                                               *)
(***************************************************************************)
MaxNum == 4
Den == 2
MaxTime == 3
MaxLen == 3

(***************************************************************************)
(* Arithmetic on numbers.                                                  *)
(***************************************************************************)
Abs(n) == IF n < 0 THEN -n ELSE n

RECURSIVE GCD(_, _)
GCD(m, n) == IF n = 0 THEN m ELSE GCD(n, m % n)

Rat(n, d) ==
    LET g == GCD(Abs(n), Abs(d))
        s == IF d < 0 THEN -1 ELSE 1
    IN  <<(s * n) \div g, (s * d) \div g>>

Zero == <<0, 1>>
One == <<1, 1>>
MinusOne == <<-1, 1>>

Sub(x, y) == Rat(x[1] * y[2] - y[1] * x[2], x[2] * y[2])
Neg(x) == <<-x[1], x[2]>>
Div(x, y) == Rat(x[1] * y[2], x[2] * y[1])
Gt(x, y) == x[1] * y[2] > y[1] * x[2]
Lt(x, y) == x[1] * y[2] < y[1] * x[2]

(***************************************************************************)
(* rhombus_types.vector: the constructor and the shape check.              *)
(***************************************************************************)
Vec2(x, y) == <<x, y>>

validate_vec2(a) == Len(a) = 2

(***************************************************************************)
(* Results of a call: a returned vector, or the exception that ended it.   *)
(***************************************************************************)
Pending == [kind |-> "pending", value |-> <<>>, arg |-> ""]
Ok(v) == [kind |-> "ok", value |-> v, arg |-> ""]
ValidationError(which) == [kind |-> "ValidationError", value |-> <<>>, arg |-> which]
IndexError == [kind |-> "IndexError", value |-> <<>>, arg |-> ""]

(***************************************************************************)
(* get_velocity, lines 27-40.  np.subtract and the division by the scalar  *)
(* act on each component.                                                  *)
(***************************************************************************)
Quotient(pa, ta, pb, tb) ==
    [i \in 1..Len(pa) |-> Div(Sub(pb[i], pa[i]), Sub(tb, ta))]

get_velocity_swapped(pa, ta, pb, tb) ==
    IF Sub(tb, ta) = Zero
    THEN Vec2(Zero, Zero)
    ELSE [i \in 1..Len(pa) |-> Div(Sub(pa[i], pb[i]), Sub(tb, ta))]

get_velocity_absdt(pa, ta, pb, tb) ==
    IF Sub(tb, ta) = Zero
    THEN Vec2(Zero, Zero)
    ELSE [i \in 1..Len(pa) |->
            Div(Sub(pb[i], pa[i]),
                IF Lt(Sub(tb, ta), Zero) THEN Neg(Sub(tb, ta)) ELSE Sub(tb, ta))]

get_velocity(pa, ta, pb, tb) ==
    IF Sub(tb, ta) = Zero
    THEN Vec2(Zero, Zero)
    ELSE Quotient(pa, ta, pb, tb)

(***************************************************************************)
(* One axis of normalize_velocity, lines 58-63 (x) and 65-70 (y): the      *)
(* value the axis of the zero-initialised output holds afterwards.         *)
(***************************************************************************)
VelocityAxis_nonstrict(c, t) ==
    IF ~Lt(c, t) THEN One
    ELSE IF ~Gt(c, Neg(t)) THEN MinusOne
    ELSE Zero

VelocityAxis_negfirst(c, t) ==
    IF Lt(c, Neg(t)) THEN MinusOne
    ELSE IF Gt(c, t) THEN One
    ELSE Zero

VelocityAxis(c, t) ==
    IF Gt(c, t) THEN One
    ELSE IF Lt(c, Neg(t)) THEN MinusOne
    ELSE Zero

(***************************************************************************)
(* One axis of normalize_position, lines 90-95 (x) and 97-102 (y).         *)
(***************************************************************************)
PositionAxis_nearfirst(c, t) ==
    IF Lt(c, t) THEN MinusOne
    ELSE IF Gt(c, Sub(One, t)) THEN One
    ELSE Zero

PositionAxis_nonstrict(c, t) ==
    IF ~Lt(c, Sub(One, t)) THEN One
    ELSE IF ~Gt(c, t) THEN MinusOne
    ELSE Zero

PositionAxis(c, t) ==
    IF Gt(c, Sub(One, t)) THEN One
    ELSE IF Lt(c, t) THEN MinusOne
    ELSE Zero

(***************************************************************************)
(* The default of the threshold parameter, lines 42 and 75.                *)
(***************************************************************************)
DefaultThreshold == Vec2(Zero, Zero)

(***************************************************************************)
(* normalize_velocity, lines 42-73.                                        *)
(***************************************************************************)
normalize_velocity(a, threshold) ==
    IF ~validate_vec2(a) THEN ValidationError("a")
    ELSE IF ~validate_vec2(threshold) THEN ValidationError("threshold")
    ELSE Ok(Vec2(VelocityAxis(a[1], threshold[1]),
                 VelocityAxis(a[2], threshold[2])))

(***************************************************************************)
(* normalize_position, lines 75-105.  Nothing checks the shapes: a[0],     *)
(* threshold[0], a[1] and threshold[1] are read in that order as far as    *)
(* the tests are evaluated, and an index past the end raises IndexError.   *)
(* The x test always reads a[0] and threshold[0]; the y test always reads  *)
(* a[1] and threshold[1].                                                  *)
(***************************************************************************)
normalize_position_validated(a, threshold) ==
    IF ~validate_vec2(a) THEN ValidationError("a")
    ELSE IF ~validate_vec2(threshold) THEN ValidationError("threshold")
    ELSE Ok(Vec2(PositionAxis(a[1], threshold[1]),
                 PositionAxis(a[2], threshold[2])))

normalize_position(a, threshold) ==
    IF Len(a) < 1 \/ Len(threshold) < 1 THEN IndexError
    ELSE IF Len(a) < 2 \/ Len(threshold) < 2 THEN IndexError
    ELSE Ok(Vec2(PositionAxis(a[1], threshold[1]),
                 PositionAxis(a[2], threshold[2])))

(***************************************************************************)
(* The inputs of one call.  Grid holds the multiples of 1/Den between      *)
(* -MaxNum/Den and MaxNum/Den; timestamps are whole milliseconds.          *)
(* Vectors of a wrong length are drawn over ShapeGrid.                     *)
(***************************************************************************)
Grid == {Rat(k, Den) : k \in -MaxNum..MaxNum}
Times == {Rat(k, 1) : k \in 0..MaxTime}
ShapeGrid == {Zero, One}
Vec2s == {Vec2(x, y) : x, y \in Grid}
AnyVecs == Vec2s \cup UNION {[1..n -> ShapeGrid] : n \in 0..MaxLen}

NoVec == <<>>

VelocityCalls ==
    [op : {"get_velocity"}, a : Vec2s, ta : Times, b : Vec2s, tb : Times,
     omitted : {FALSE}]

QuantizerCalls(op) ==
    [op : {op}, a : AnyVecs, ta : {Zero}, b : AnyVecs, tb : {Zero},
     omitted : {FALSE}]
    \cup
    [op : {op}, a : AnyVecs, ta : {Zero}, b : {NoVec}, tb : {Zero},
     omitted : {TRUE}]

(***************************************************************************)
(* The threshold a quantizer call runs with: the argument, or the default  *)
(* of the parameter when the caller passes none.                           *)
(***************************************************************************)
Threshold(c) == IF c.omitted THEN DefaultThreshold ELSE c.b

(***************************************************************************)
(* The concurrent specification: objects, references and thread frames.    *)
(* An object is named by its owner and its role.  The two defaults of the  *)
(* threshold parameters are built once, when the module is loaded (lines   *)
(* 42 and 75), and every call that omits the threshold is bound to them.   *)
(* heap maps each live object to its contents.                             *)
(***************************************************************************)
Threads == {"t1", "t2"}

DefaultVelocityRef == <<"module", "normalize_velocity.threshold">>
DefaultPositionRef == <<"module", "normalize_position.threshold">>
DefaultRefs == {DefaultVelocityRef, DefaultPositionRef}
NoRef == <<"none", "none">>

OwnRefs(t) == {<<t, "a">>, <<t, "b">>, <<t, "result">>}

InitHeap == [o \in DefaultRefs |-> Vec2(Zero, Zero)]

IdleFrame ==
    [pc |-> "idle", op |-> "none", omitted |-> FALSE,
     a |-> NoRef, b |-> NoRef, ta |-> Zero, tb |-> Zero, res |-> NoRef,
     in_a |-> NoVec, in_b |-> NoVec, out |-> Pending]

InitFrames == [t \in Threads |-> IdleFrame]

IdleCall ==
    [op |-> "none", a |-> NoVec, ta |-> Zero, b |-> NoVec, tb |-> Zero,
     omitted |-> FALSE]

Extend(h, o, v) == [x \in DOMAIN h \cup {o} |-> IF x = o THEN v ELSE h[x]]

Signs == {MinusOne, One}
ThreadTimes == {Zero, One}
ThreadVec2s == {Vec2(x, y) : x, y \in Signs}
ThreadVecs == ThreadVec2s \cup UNION {[1..n -> {One}] : n \in 1..MaxLen}

(***************************************************************************)
(* Spec: one call of one operation on inputs drawn by Init.                *)
(***************************************************************************)
Init ==
    /\ call \in VelocityCalls \cup QuantizerCalls("normalize_velocity")
                \cup QuantizerCalls("normalize_position")
    /\ outcome = Pending
    /\ heap = InitHeap
    /\ frames = InitFrames

CallGetVelocity ==
    /\ call.op = "get_velocity"
    /\ outcome = Pending
    /\ outcome' = Ok(get_velocity(call.a, call.ta, call.b, call.tb))
    /\ UNCHANGED <<call, heap, frames>>

CallNormalizeVelocity ==
    /\ call.op = "normalize_velocity"
    /\ outcome = Pending
    /\ outcome' = normalize_velocity(call.a, Threshold(call))
    /\ UNCHANGED <<call, heap, frames>>

CallNormalizePosition ==
    /\ call.op = "normalize_position"
    /\ outcome = Pending
    /\ outcome' = normalize_position(call.a, Threshold(call))
    /\ UNCHANGED <<call, heap, frames>>

Next ==
    \/ CallGetVelocity
    \/ CallNormalizeVelocity
    \/ CallNormalizePosition

Spec == Init /\ [][Next]_vars

(***************************************************************************)
(* SpecThreads: the threads of Threads call the three operations without   *)
(* synchronization, one statement of one call at a time.  A caller builds  *)
(* the arguments of its call, keeps them for as long as the call and its   *)
(* result are in use, may write to the vector it got back, and drops all   *)
(* of them before its next call.                                           *)
(***************************************************************************)
CallerValue == Rat(MaxNum, Den)

Frame(t) == frames[t]

Goto(t, label) == frames' = [frames EXCEPT ![t].pc = label]

Raise(t, exc) == frames' = [frames EXCEPT ![t].pc = "raised", ![t].out = exc]

StartGetVelocity(t) ==
    /\ Frame(t).pc = "idle"
    /\ \E pa \in ThreadVec2s, pb \in ThreadVec2s, ta \in ThreadTimes, tb \in ThreadTimes :
         /\ heap' = Extend(Extend(heap, <<t, "a">>, pa), <<t, "b">>, pb)
         /\ frames' = [frames EXCEPT ![t] =
                [IdleFrame EXCEPT !.pc = "gv_guard", !.op = "get_velocity",
                                  !.a = <<t, "a">>, !.b = <<t, "b">>,
                                  !.ta = ta, !.tb = tb,
                                  !.in_a = pa, !.in_b = pb]]
    /\ UNCHANGED <<call, outcome>>

StartQuantizer(t, op, first, default) ==
    /\ Frame(t).pc = "idle"
    /\ \E va \in ThreadVecs :
         \/ \E vb \in ThreadVecs :
              /\ heap' = Extend(Extend(heap, <<t, "a">>, va), <<t, "b">>, vb)
              /\ frames' = [frames EXCEPT ![t] =
                     [IdleFrame EXCEPT !.pc = first, !.op = op,
                                       !.a = <<t, "a">>, !.b = <<t, "b">>,
                                       !.in_a = va, !.in_b = vb]]
         \/ /\ heap' = Extend(heap, <<t, "a">>, va)
            /\ frames' = [frames EXCEPT ![t] =
                   [IdleFrame EXCEPT !.pc = first, !.op = op, !.omitted = TRUE,
                                     !.a = <<t, "a">>, !.b = default,
                                     !.in_a = va, !.in_b = heap[default]]]
    /\ UNCHANGED <<call, outcome>>

StartNormalizeVelocity(t) ==
    StartQuantizer(t, "normalize_velocity", "nv_validate_a", DefaultVelocityRef)

StartNormalizePosition(t) ==
    StartQuantizer(t, "normalize_position", "np_build", DefaultPositionRef)

(***************************************************************************)
(* Vec2(0, 0) at lines 37, 56 and 88: a new array, bound to the local      *)
(* name of the result.                                                     *)
(***************************************************************************)
BuildOutput_threshold(h, t, f) == [heap |-> h, res |-> f.b]

BuildOutput_inplace(h, t, f) == [heap |-> h, res |-> f.a]

BuildOutput(h, t, f) ==
    [heap |-> Extend(h, <<t, "result">>, Vec2(Zero, Zero)), res |-> <<t, "result">>]

Build(t, next) ==
    LET o == BuildOutput(heap, t, Frame(t))
    IN  /\ heap' = o.heap
        /\ frames' = [frames EXCEPT ![t].pc = next, ![t].res = o.res]
        /\ UNCHANGED <<call, outcome>>

(***************************************************************************)
(* One axis test with its assignment: i is the axis, v the value the test  *)
(* selects (Zero: neither branch is taken and nothing is written).         *)
(***************************************************************************)
AxisStep(t, i, v, next) ==
    /\ heap' = IF v = Zero THEN heap
               ELSE [heap EXCEPT ![Frame(t).res][i] = v]
    /\ Goto(t, next)
    /\ UNCHANGED <<call, outcome>>

Return(t) ==
    /\ frames' = [frames EXCEPT ![t].pc = "returned",
                                ![t].out = Ok(heap[Frame(t).res])]
    /\ UNCHANGED <<call, outcome, heap>>

(* get_velocity *)
GvGuard(t) ==
    /\ Frame(t).pc = "gv_guard"
    /\ IF Sub(Frame(t).tb, Frame(t).ta) = Zero
       THEN Goto(t, "gv_zero")
       ELSE Goto(t, "gv_divide")
    /\ UNCHANGED <<call, outcome, heap>>

GvZero(t) ==
    /\ Frame(t).pc = "gv_zero"
    /\ Build(t, "gv_return")

GvDivide(t) ==
    /\ Frame(t).pc = "gv_divide"
    /\ LET f == Frame(t)
       IN  /\ heap' = Extend(heap, <<t, "result">>,
                             Quotient(heap[f.a], f.ta, heap[f.b], f.tb))
           /\ frames' = [frames EXCEPT ![t].pc = "gv_return",
                                       ![t].res = <<t, "result">>]
    /\ UNCHANGED <<call, outcome>>

GvReturn(t) ==
    /\ Frame(t).pc = "gv_return"
    /\ Return(t)

(* normalize_velocity *)
NvValidateA(t) ==
    /\ Frame(t).pc = "nv_validate_a"
    /\ IF validate_vec2(heap[Frame(t).a])
       THEN Goto(t, "nv_validate_threshold")
       ELSE Raise(t, ValidationError("a"))
    /\ UNCHANGED <<call, outcome, heap>>

NvValidateThreshold_skipped(t) ==
    /\ Frame(t).pc = "nv_validate_threshold"
    /\ Goto(t, "nv_build")
    /\ UNCHANGED <<call, outcome, heap>>

NvValidateThreshold(t) ==
    /\ Frame(t).pc = "nv_validate_threshold"
    /\ IF validate_vec2(heap[Frame(t).b])
       THEN Goto(t, "nv_build")
       ELSE Raise(t, ValidationError("threshold"))
    /\ UNCHANGED <<call, outcome, heap>>

NvBuild(t) ==
    /\ Frame(t).pc = "nv_build"
    /\ Build(t, "nv_x")

NvAxis(t, i, here, next) ==
    /\ Frame(t).pc = here
    /\ LET f == Frame(t)
       IN  IF Len(heap[f.a]) < i \/ Len(heap[f.b]) < i
           THEN Raise(t, IndexError) /\ UNCHANGED <<call, outcome, heap>>
           ELSE AxisStep(t, i, VelocityAxis(heap[f.a][i], heap[f.b][i]), next)

NvX(t) == NvAxis(t, 1, "nv_x", "nv_y")

NvY(t) == NvAxis(t, 2, "nv_y", "nv_return")

NvReturn(t) ==
    /\ Frame(t).pc = "nv_return"
    /\ Return(t)

(* normalize_position *)
NpBuild(t) ==
    /\ Frame(t).pc = "np_build"
    /\ Build(t, "np_x")

NpAxis(t, i, here, next) ==
    /\ Frame(t).pc = here
    /\ LET f == Frame(t)
       IN  IF Len(heap[f.a]) < i \/ Len(heap[f.b]) < i
           THEN Raise(t, IndexError) /\ UNCHANGED <<call, outcome, heap>>
           ELSE AxisStep(t, i, PositionAxis(heap[f.a][i], heap[f.b][i]), next)

NpX(t) == NpAxis(t, 1, "np_x", "np_y")

NpY(t) == NpAxis(t, 2, "np_y", "np_return")

NpReturn(t) ==
    /\ Frame(t).pc = "np_return"
    /\ Return(t)

(* the caller, once its call has ended *)
WriteReturned(t) ==
    /\ Frame(t).pc = "returned"
    /\ \E i \in 1..Len(heap[Frame(t).res]) :
         heap' = [heap EXCEPT ![Frame(t).res][i] = CallerValue]
    /\ Goto(t, "written")
    /\ UNCHANGED <<call, outcome>>

Release(t) ==
    /\ Frame(t).pc \in {"returned", "written", "raised"}
    /\ heap' = [o \in DOMAIN heap \ OwnRefs(t) |-> heap[o]]
    /\ frames' = [frames EXCEPT ![t] = IdleFrame]
    /\ UNCHANGED <<call, outcome>>

ThreadInit ==
    /\ call = IdleCall
    /\ outcome = Pending
    /\ heap = InitHeap
    /\ frames = InitFrames

ThreadNext ==
    \E t \in Threads :
        \/ StartGetVelocity(t)
        \/ StartNormalizeVelocity(t)
        \/ StartNormalizePosition(t)
        \/ GvGuard(t)
        \/ GvZero(t)
        \/ GvDivide(t)
        \/ GvReturn(t)
        \/ NvValidateA(t)
        \/ NvValidateThreshold(t)
        \/ NvBuild(t)
        \/ NvX(t)
        \/ NvY(t)
        \/ NvReturn(t)
        \/ NpBuild(t)
        \/ NpX(t)
        \/ NpY(t)
        \/ NpReturn(t)
        \/ WriteReturned(t)
        \/ Release(t)

SpecThreads == ThreadInit /\ [][ThreadNext]_vars

(***************************************************************************)
(* Properties of Spec.                                                     *)
(***************************************************************************)
Ended(op) == call.op = op /\ outcome # Pending

Axes == {1, 2}

NonNegative(v) == \A i \in Axes : ~Lt(v[i], Zero)

Discrete == {MinusOne, Zero, One}

(* q * (tb - ta) = pb - pa, over the integers *)
IsVelocity(q, pa, ta, pb, tb) ==
    q[1] * (tb[1] * ta[2] - ta[1] * tb[2]) * pb[2] * pa[2]
        = q[2] * tb[2] * ta[2] * (pb[1] * pa[2] - pa[1] * pb[2])

(* C1: get_velocity(a, b) raises nothing; it is (0, 0) when the timestamps *)
(* are equal, and otherwise on each axis (b.position - a.position) /       *)
(* (b.timestamp - a.timestamp), also when b is earlier than a.             *)
C1_GetVelocity ==
    Ended("get_velocity") =>
        /\ outcome.kind = "ok"
        /\ Len(outcome.value) = 2
        /\ IF call.tb = call.ta
           THEN outcome.value = <<Zero, Zero>>
           ELSE \A i \in Axes :
                  IsVelocity(outcome.value[i], call.a[i], call.ta, call.b[i], call.tb)

C1_Witness ==
    /\ Ended("get_velocity")
    /\ Lt(call.tb, call.ta)
    /\ outcome.value = <<Rat(-1, 2), Rat(2, 3)>>

(* C2 as stated: when the timestamps differ, get_velocity(a, b) is the     *)
(* negation of get_velocity(b, a) on both axes.                            *)
C2_AsStated ==
    (Ended("get_velocity") /\ call.ta # call.tb) =>
        \A i \in Axes :
            outcome.value[i] = Neg(get_velocity(call.b, call.tb, call.a, call.ta)[i])

(* C2 amended: when the timestamps differ, get_velocity(a, b) equals       *)
(* get_velocity(b, a) on both axes: swapping the arguments negates both    *)
(* the position difference and the time difference.                       *)
C2_Symmetric ==
    (Ended("get_velocity") /\ call.ta # call.tb) =>
        \A i \in Axes :
            outcome.value[i] = get_velocity(call.b, call.tb, call.a, call.ta)[i]

C2_Witness ==
    /\ Ended("get_velocity")
    /\ call.ta # call.tb
    /\ Gt(outcome.value[1], Zero)
    /\ Lt(outcome.value[2], Zero)
    /\ Neg(outcome.value[1]) # get_velocity(call.b, call.tb, call.a, call.ta)[1]

(* C3: for a 2-component velocity and a threshold with both components     *)
(* >= 0, each axis of normalize_velocity is 1 if c > t, -1 if c < -t and   *)
(* 0 otherwise; with the threshold omitted it is the sign of c.            *)
C3_VelocityPolicy ==
    (/\ Ended("normalize_velocity")
     /\ Len(call.a) = 2
     /\ call.omitted \/ (Len(call.b) = 2 /\ NonNegative(call.b))) =>
        /\ outcome.kind = "ok"
        /\ Len(outcome.value) = 2
        /\ \A i \in Axes :
             LET c == call.a[i]
                 t == IF call.omitted THEN Zero ELSE call.b[i]
                 r == outcome.value[i]
             IN  /\ r \in Discrete
                 /\ Gt(c, t) => r = One
                 /\ Lt(c, Neg(t)) => r = MinusOne
                 /\ (~Gt(c, t) /\ ~Lt(c, Neg(t))) => r = Zero

C3_Witness ==
    /\ Ended("normalize_velocity")
    /\ ~call.omitted
    /\ call.a = <<One, MinusOne>>
    /\ call.b = <<One, One>>
    /\ outcome.value = <<Zero, Zero>>

(* C4 as stated: for a threshold with both components >= 0, each axis of   *)
(* normalize_position is 1 whenever c > 1 - t, -1 whenever c < t, and 0    *)
(* whenever neither holds.                                                 *)
C4_AsStated ==
    (/\ Ended("normalize_position")
     /\ Len(call.a) = 2
     /\ call.omitted \/ (Len(call.b) = 2 /\ NonNegative(call.b))) =>
        /\ outcome.kind = "ok"
        /\ \A i \in Axes :
             LET c == call.a[i]
                 t == IF call.omitted THEN Zero ELSE call.b[i]
                 r == outcome.value[i]
             IN  /\ r \in Discrete
                 /\ Gt(c, Sub(One, t)) => r = One
                 /\ Lt(c, t) => r = MinusOne
                 /\ (~Gt(c, Sub(One, t)) /\ ~Lt(c, t)) => r = Zero

(* C4 amended: for a threshold with both components >= 0, each axis of     *)
(* normalize_position is 1 whenever c > 1 - t, -1 whenever c < t and not   *)
(* c > 1 - t, and 0 whenever neither holds; every component is -1, 0, 1.   *)
C4_PositionPolicy ==
    (/\ Ended("normalize_position")
     /\ Len(call.a) = 2
     /\ call.omitted \/ (Len(call.b) = 2 /\ NonNegative(call.b))) =>
        /\ outcome.kind = "ok"
        /\ Len(outcome.value) = 2
        /\ \A i \in Axes :
             LET c == call.a[i]
                 t == IF call.omitted THEN Zero ELSE call.b[i]
                 r == outcome.value[i]
             IN  /\ r \in Discrete
                 /\ Gt(c, Sub(One, t)) => r = One
                 /\ (Lt(c, t) /\ ~Gt(c, Sub(One, t))) => r = MinusOne
                 /\ (~Gt(c, Sub(One, t)) /\ ~Lt(c, t)) => r = Zero

C4_Witness ==
    /\ Ended("normalize_position")
    /\ ~call.omitted
    /\ call.a = <<Rat(1, 2), Zero>>
    /\ call.b = <<One, Rat(1, 2)>>
    /\ outcome.value = <<One, MinusOne>>

(* C6 as stated: when the position or the threshold of normalize_position  *)
(* has fewer or more than two components, the call ends in a runtime       *)
(* failure: not in a validation error, and not in a normal result.         *)
C6_AsStated ==
    (/\ Ended("normalize_position")
     /\ Len(call.a) # 2 \/ Len(Threshold(call)) # 2) =>
        outcome.kind \notin {"ValidationError", "ok"}

(* C6 amended: normalize_position never ends in a validation error; when   *)
(* the position or the threshold has fewer than two components it ends in  *)
(* an IndexError; when both have at least two it returns normally the      *)
(* result for their first two components, ignoring the others.             *)
C6_NoShapeValidation ==
    Ended("normalize_position") =>
        LET a == call.a
            th == Threshold(call)
        IN  /\ outcome.kind # "ValidationError"
            /\ (Len(a) < 2 \/ Len(th) < 2) => outcome.kind = "IndexError"
            /\ (Len(a) >= 2 /\ Len(th) >= 2) =>
                   outcome = normalize_position(SubSeq(a, 1, 2), SubSeq(th, 1, 2))
            /\ (Len(a) >= 2 /\ Len(th) >= 2) => outcome.kind = "ok"

C6_Witness ==
    /\ Ended("normalize_position")
    /\ Len(call.a) = 3
    /\ ~call.omitted
    /\ Len(call.b) = 2
    /\ outcome.kind = "ok"
    /\ outcome.value = <<One, MinusOne>>

(* C9: on an axis of normalize_position whose threshold t is greater than  *)
(* 1/2 the output is 1 if c > 1 - t and -1 otherwise, never 0; a c with    *)
(* 1 - t < c < t yields 1.                                                 *)
C9_FarEdgeFirst ==
    (Ended("normalize_position") /\ Len(call.a) = 2 /\ ~call.omitted /\ Len(call.b) = 2) =>
        \A i \in Axes :
            LET c == call.a[i]
                t == call.b[i]
                r == outcome.value[i]
            IN  Gt(t, Rat(1, 2)) =>
                    /\ r = (IF Gt(c, Sub(One, t)) THEN One ELSE MinusOne)
                    /\ (Gt(c, Sub(One, t)) /\ Lt(c, t)) => r = One

C9_Witness ==
    /\ Ended("normalize_position")
    /\ ~call.omitted
    /\ call.a = <<Rat(1, 2), One>>
    /\ call.b = <<One, Zero>>
    /\ outcome.value[1] = One

(* C10: normalize_velocity accepts a negative threshold; on an axis whose  *)
(* threshold t is < 0 the output is 1 if c > t and -1 otherwise, never 0,  *)
(* and a c with t < c < -t yields 1.                                       *)
C10_NegativeThreshold ==
    (Ended("normalize_velocity") /\ Len(call.a) = 2 /\ ~call.omitted /\ Len(call.b) = 2) =>
        /\ outcome.kind = "ok"
        /\ \A i \in Axes :
             LET c == call.a[i]
                 t == call.b[i]
                 r == outcome.value[i]
             IN  Lt(t, Zero) =>
                     /\ r = (IF Gt(c, t) THEN One ELSE MinusOne)
                     /\ (Gt(c, t) /\ Lt(c, Neg(t))) => r = One

C10_Witness ==
    /\ Ended("normalize_velocity")
    /\ ~call.omitted
    /\ call.a = <<Zero, MinusOne>>
    /\ call.b = <<MinusOne, Rat(-1, 2)>>
    /\ outcome.value = <<One, MinusOne>>

(***************************************************************************)
(* Properties of SpecThreads.                                              *)
(***************************************************************************)
EndedPcs == {"returned", "written", "raised"}

ValidatedPcs == {"nv_build", "nv_x", "nv_y", "nv_return", "returned", "written"}

(* C5: normalize_velocity ends in a validation error and returns nothing   *)
(* whenever its velocity or its threshold does not have exactly two        *)
(* components; the velocity is validated first, the threshold second, and  *)
(* both before the output vector is built or a comparison is made.         *)
C5_FailFast ==
    \A t \in Threads :
        LET f == frames[t]
            bad_a == Len(f.in_a) # 2
            bad_b == Len(f.in_b) # 2
        IN  f.op = "normalize_velocity" =>
              /\ f.pc = "nv_validate_threshold" => ~bad_a
              /\ f.pc \in ValidatedPcs => (~bad_a /\ ~bad_b)
              /\ (bad_a \/ bad_b) =>
                    /\ f.res = NoRef
                    /\ <<t, "result">> \notin DOMAIN heap
              /\ (f.pc \in EndedPcs /\ bad_a) => f.out = ValidationError("a")
              /\ (f.pc \in EndedPcs /\ ~bad_a /\ bad_b) =>
                    f.out = ValidationError("threshold")

C5_Witness ==
    \E t \in Threads :
        /\ frames[t].op = "normalize_velocity"
        /\ frames[t].pc = "raised"
        /\ Len(frames[t].in_a) = 2
        /\ Len(frames[t].in_b) = 3
        /\ frames[t].out = ValidationError("threshold")

(* C7: no operation mutates its arguments, and the vector a call returns   *)
(* is a new object: it is none of the call's arguments, neither default    *)
(* threshold, and no object of another call, so that the caller's write    *)
(* to it changes no argument.                                              *)
C7_NoMutation ==
    \A t \in Threads :
        LET f == frames[t]
        IN  f.pc # "idle" =>
              /\ heap[f.a] = f.in_a
              /\ heap[f.b] = f.in_b
              /\ f.res # NoRef =>
                    /\ f.res \notin {f.a, f.b} \cup DefaultRefs
                    /\ \A u \in Threads \ {t} :
                         f.res \notin {frames[u].a, frames[u].b, frames[u].res}

C7_Witness ==
    \E t \in Threads :
        /\ frames[t].op = "normalize_velocity"
        /\ frames[t].pc = "written"
        /\ frames[t].out.value = <<One, MinusOne>>
        /\ heap[frames[t].res] = <<One, CallerValue>>
        /\ heap[frames[t].a] = <<One, MinusOne>>

(* The result of the frame's call when it runs alone. *)
Alone(f) ==
    LET th == IF f.omitted THEN Vec2(Zero, Zero) ELSE f.in_b
    IN  CASE f.op = "get_velocity" -> Ok(get_velocity(f.in_a, f.ta, f.in_b, f.tb))
          [] f.op = "normalize_velocity" -> normalize_velocity(f.in_a, th)
          [] f.op = "normalize_position" -> normalize_position(f.in_a, th)

(* C8: in every interleaving of calls by the threads, the default          *)
(* thresholds stay (0, 0), a call that omits the threshold runs with       *)
(* (0, 0), and every call ends as it does when it runs alone (with the     *)
(* threshold omitted: as with an explicit (0, 0)); until its caller writes *)
(* to it, the returned vector holds the value returned.                    *)
C8_NoLeakage ==
    /\ \A r \in DefaultRefs : heap[r] = <<Zero, Zero>>
    /\ \A t \in Threads :
         LET f == frames[t]
         IN  /\ f.omitted => (f.b \in DefaultRefs /\ f.in_b = <<Zero, Zero>>)
             /\ f.pc \in EndedPcs => f.out = Alone(f)
             /\ f.pc = "returned" => heap[f.res] = f.out.value

C8_Witness ==
    /\ frames["t1"].op = "normalize_velocity"
    /\ frames["t1"].omitted
    /\ frames["t1"].pc = "written"
    /\ frames["t1"].out.value = <<One, MinusOne>>
    /\ frames["t2"].op = "normalize_velocity"
    /\ frames["t2"].omitted
    /\ frames["t2"].pc = "nv_y"
    /\ frames["t2"].in_a = <<MinusOne, One>>

====
